---- MODULE Spec2Model ----
(***************************************************************************)
(* Model of the fruit-tree game of src/script.js (the Apple-only variant   *)
(* src/unnamed/part_000 has the same state machine without the fruit       *)
(* type).                                                                  *)
(*                                                                         *)
(* Units.  JavaScript numbers are modelled in fixed point:                 *)
(*   lengths and velocities   1/100 pixel        (40 px  = 4000)           *)
(*   angles                   1/10000 radian     (0.1 rad = 1000)          *)
(*   particle life and decay  1/100000           (1.0    = 100000)         *)
(*   viewport width, height   whole pixels, as window.innerWidth gives     *)
(* A product with a decimal factor is truncated toward zero (Trunc).       *)
(*                                                                         *)
(* Math.random() is a value k/8, k in 0..7, written k.  The draws of one   *)
(* handler run are read in program order from a periodic stream; the       *)
(* handler's input is the stream, chosen from a small set.                 *)
(***************************************************************************)
EXTENDS Integers, Sequences, FiniteSets, TLC

VARIABLES
    width,              \* script.js:5   viewport width  (px)
    height,             \* script.js:5   viewport height (px)
    fruits,             \* script.js:209 sequence of Fruit, creation order
    particles,          \* script.js:7   sequence of Particle
    resetTimer,         \* script.js:45  0 is null, else a timer handle
    currentFruitType,   \* script.js:46
    timers,             \* the host's table of armed setTimeout handles
    cues,               \* sound cues requested by the last event, in order
    ev,                 \* the last event, its inputs, and whether a timer
                        \* was armed when it began
    frame,              \* frames run since the last reset (bounds the run)
    placement           \* script.js:221 for each fruit of the batch, the
                        \* locals of its position loop when it was pushed

vars == <<width, height, fruits, particles, resetTimer, currentFruitType,
          timers, cues, ev, frame, placement>>

----------------------------------------------------------------------------
(* Bounds of the exploration *)

MaxFrames == 1          \* frames explored per batch in Spec
MaxLongFrames == 23     \* frames explored per batch in SpecLong
MaxTimerId == 2         \* timer handles the host hands out: 1..MaxTimerId
MaxFallFrames == 102    \* frames explored per batch in SpecFall
TapWindow == 2          \* SpecFall takes pointer events in frames 0..TapWindow-1
MaxFalling == 2         \* fruits knocked down per batch in SpecFall

----------------------------------------------------------------------------
(* Program constants *)

GRAVITY == 50           \* 0.5 px per frame
FRUIT_COUNT == 8
MAX_ATTEMPTS == 200
RADIUS == 4000          \* 40 px
HIT_RADIUS == 5200      \* 40 * 1.3 = 52 px
MIN_SEPARATION == 7500  \* 75 px
CROWN_MARGIN == 3500    \* 35 px
LEAF_COUNT == 5
LEAF_LIFE == 100000     \* 1.0
LEAF_RISE == 1000       \* leaves start 10 px above the fruit centre
LEAF_GRAVITY == 20      \* 0.2 px per frame
LEAF_SPIN == 1000       \* 0.1 rad per frame

Types == <<"apple", "mikan", "banana">>

----------------------------------------------------------------------------
(* Arithmetic *)

Abs(n) == IF n < 0 THEN -n ELSE n

Min(a, b) == IF a < b THEN a ELSE b

Max(a, b) == IF a > b THEN a ELSE b

\* n / d rounded toward zero, d > 0
Trunc(n, d) == IF n >= 0 THEN n \div d ELSE -((-n) \div d)

\* Math.sqrt(k/8) in thousandths, rounded down, for the draws k in 0..7
SqrtTable ==
    [ k \in 0..7 |->
        CHOOSE s \in 0..1000 : s * s <= k * 125000 /\ (s + 1) * (s + 1) > k * 125000 ]

SqrtMilli(k) == SqrtTable[k]

\* Math.cos and Math.sin of k/8 of a turn, in thousandths
CosMilli(k) == <<1000, 707, 0, -707, -1000, -707, 0, 707>>[(k % 8) + 1]

SinMilli(k) == <<0, 707, 1000, 707, 0, -707, -1000, -707>>[(k % 8) + 1]

\* Math.sqrt(dx*dx + dy*dy) < r, for r > 0, without leaving 32 bits
DistLess(dx, dy, r) == /\ Abs(dx) < r
                       /\ Abs(dy) < r
                       /\ dx * dx + dy * dy < r * r

\* the n-th draw (n = 0, 1, ...) of Math.random() from a periodic stream
Rnd(strm, n) == strm[(n % Len(strm)) + 1]

----------------------------------------------------------------------------
(* Particle *)

\* constructor(x, y, color): four draws, starting at draw n of strm.
\* pid names the particle (the fruit it came from, its number); it is not
\* a field of the program's object and no operation reads it.
NewParticle(x, y, strm, n, pid) ==
    [ x        |-> x,
      y        |-> y,
      vx       |-> (Rnd(strm, n) - 4) * 50,
      vy       |-> (Rnd(strm, n + 1) - 4) * 50,
      life     |-> LEAF_LIFE,
      decay    |-> 2000 + Rnd(strm, n + 2) * 375,
      rotation |-> Rnd(strm, n + 3) * 7854,
      pid      |-> pid ]

\* update() with a slip: the life is not reduced
ParticleUpdateNoDecay(p) ==
    [ p EXCEPT !.x = p.x + p.vx,
               !.y = p.y + p.vy,
               !.vy = p.vy + LEAF_GRAVITY,
               !.rotation = p.rotation + LEAF_SPIN ]

ParticleUpdate(p) ==
    [ p EXCEPT !.x = p.x + p.vx,
               !.y = p.y + p.vy,
               !.vy = p.vy + LEAF_GRAVITY,
               !.life = p.life - p.decay,
               !.rotation = p.rotation + LEAF_SPIN ]

----------------------------------------------------------------------------
(* Fruit *)

\* constructor(x, y, type): one draw, sway (swayOffset in 1/8 turns)
NewFruit(x, y, type, sway) ==
    [ x               |-> x,
      y               |-> y,
      type            |-> type,
      vx              |-> 0,
      vy              |-> 0,
      radius          |-> RADIUS,
      hitRadius       |-> HIT_RADIUS,
      isFalling       |-> FALSE,
      rotation        |-> 0,
      angularVelocity |-> 0,
      swayOffset      |-> sway ]

\* height - height * 0.2
GroundLevel(h) == h * 100 - h * 20

\* the ground collision with a slip: the rebound loses no speed
GroundCollisionElastic(g, h) ==
    IF g.y + g.radius > GroundLevel(h)
    THEN LET vy1 == -g.vy
             vx1 == Trunc(g.vx * 9, 10)
         IN [ g EXCEPT !.y = GroundLevel(h) - g.radius,
                       !.vy = IF Abs(vy1) < 100 THEN 0 ELSE vy1,
                       !.vx = IF Abs(vx1) < 10 THEN 0 ELSE vx1,
                       !.angularVelocity = Trunc(g.angularVelocity * 9, 10) ]
    ELSE g

\* the ground collision with a slip: a slow rebound is not zeroed
GroundCollisionNoRest(g, h) ==
    IF g.y + g.radius > GroundLevel(h)
    THEN LET vy1 == Trunc(g.vy * (-6), 10)
             vx1 == Trunc(g.vx * 9, 10)
         IN [ g EXCEPT !.y = GroundLevel(h) - g.radius,
                       !.vy = vy1,
                       !.vx = IF Abs(vx1) < 10 THEN 0 ELSE vx1,
                       !.angularVelocity = Trunc(g.angularVelocity * 9, 10) ]
    ELSE g

\* the ground collision block of update(), applied to a fruit g that has
\* already been moved
GroundCollision(g, h) ==
    IF g.y + g.radius > GroundLevel(h)
    THEN LET vy1 == Trunc(g.vy * (-6), 10)
             vx1 == Trunc(g.vx * 9, 10)
         IN [ g EXCEPT !.y = GroundLevel(h) - g.radius,
                       !.vy = IF Abs(vy1) < 100 THEN 0 ELSE vy1,
                       !.vx = IF Abs(vx1) < 10 THEN 0 ELSE vx1,
                       !.angularVelocity = Trunc(g.angularVelocity * 9, 10) ]
    ELSE g

\* the cue with a slip: every ground collision requests it
BounceCueAnyImpact(g, h) == g.y + g.radius > GroundLevel(h)

\* sounds.bounce() is requested by the ground collision of the moved fruit g
BounceCue(g, h) == g.y + g.radius > GroundLevel(h) /\ Abs(g.vy) > 200

\* the wall checks with a slip: the right wall is not checked
WallCollisionLeftOnly(g, w) ==
    IF g.x - g.radius < 0
    THEN [ g EXCEPT !.x = g.radius, !.vx = Trunc(g.vx * (-6), 10) ]
    ELSE g

\* the two wall checks of update(), in program order
WallCollision(g, w) ==
    LET g1 == IF g.x - g.radius < 0
              THEN [ g EXCEPT !.x = g.radius, !.vx = Trunc(g.vx * (-6), 10) ]
              ELSE g
    IN IF g1.x + g1.radius > w * 100
       THEN [ g1 EXCEPT !.x = w * 100 - g1.radius,
                        !.vx = Trunc(g1.vx * (-6), 10) ]
       ELSE g1

\* the Euler step with a slip: the fruit moves before gravity is applied
FruitMoveThenGravity(f) ==
    [ f EXCEPT !.vy = f.vy + GRAVITY,
               !.x = f.x + f.vx,
               !.y = f.y + f.vy,
               !.rotation = f.rotation + f.angularVelocity ]

\* gravity and the Euler step of a falling fruit
FruitMove(f) ==
    [ f EXCEPT !.vy = f.vy + GRAVITY,
               !.x = f.x + f.vx,
               !.y = f.y + f.vy + GRAVITY,
               !.rotation = f.rotation + f.angularVelocity ]

\* update() with a slip: a fruit that lands stops being a falling fruit
FruitUpdateLands(f, w, h, q) ==
    IF f.isFalling
    THEN [ WallCollision(GroundCollision(FruitMove(f), h), w)
             EXCEPT !.isFalling = ~(FruitMove(f).y + f.radius > GroundLevel(h)) ]
    ELSE [ f EXCEPT !.rotation = SinMilli(q + f.swayOffset) ]

\* update() with a slip: the physics runs before the falling flag is read
FruitUpdateAlways(f, w, h, q) ==
    IF f.isFalling
    THEN WallCollision(GroundCollision(FruitMove(f), h), w)
    ELSE [ WallCollision(GroundCollision(FruitMove(f), h), w)
             EXCEPT !.rotation = SinMilli(q + f.swayOffset) ]

\* update(); q is Date.now() / 1000 * 2 in 1/8 turns, and sin(..) * 0.1 rad
\* is SinMilli(..) in 1/10000 rad
FruitUpdate(f, w, h, q) ==
    IF f.isFalling
    THEN WallCollision(GroundCollision(FruitMove(f), h), w)
    ELSE [ f EXCEPT !.rotation = SinMilli(q + f.swayOffset) ]

----------------------------------------------------------------------------
(* initGame: the layout generator *)

TreeCenterX(w) == (w * 100) \div 2

\* height * 0.4
TreeCenterY(h) == h * 40

\* Math.min(width, height) * 0.35
CrownRadius(w, h) == Min(w, h) * 35

\* the sampling radius with a slip: no clamp at 0
MaxRUnclamped(w, h) == CrownRadius(w, h) - CROWN_MARGIN

MaxR(w, h) == Max(0, CrownRadius(w, h) - CROWN_MARGIN)

\* the overlap scan of one candidate against the fruits placed so far
Overlap(fs, x, y) ==
    \E i \in 1..Len(fs) : DistLess(x - fs[i].x, y - fs[i].y, MIN_SEPARATION)

\* the candidate of pass a (0-based) of the position loop that starts
\* reading at draw n: each pass draws an angle and then a radius
Candidate(w, h, strm, n, a) ==
    LET angle == Rnd(strm, n + 2 * a)
        r == Trunc(SqrtMilli(Rnd(strm, n + 2 * a + 1)) * MaxR(w, h), 1000)
    IN [ x |-> TreeCenterX(w) + Trunc(r * CosMilli(angle), 1000),
         y |-> TreeCenterY(h) + Trunc(r * SinMilli(angle), 1000) ]

\* the position loop with a slip: it never retries an overlapping candidate
FindPositionFirst(fs, w, h, strm, n) ==
    LET c == Candidate(w, h, strm, n, 0)
    IN [ x |-> c.x, y |-> c.y, attempts |-> 1,
         validPosition |-> ~Overlap(fs, c.x, c.y), n |-> n + 2 ]

\* The while loop that looks for a position: it stops after the first pass
\* whose candidate overlaps no placed fruit, or after pass MAX_ATTEMPTS.
\* The result is the last candidate drawn, the number of passes, whether
\* the candidate was valid, and the next unread draw.
FindPosition(fs, w, h, strm, n) ==
    LET valid(a) == LET c == Candidate(w, h, strm, n, a)
                    IN ~Overlap(fs, c.x, c.y)
        passes == { a \in 0..(MAX_ATTEMPTS - 1) : valid(a) }
        last == IF passes = {} THEN MAX_ATTEMPTS - 1
                ELSE CHOOSE a \in passes : \A b \in passes : a <= b
        c == Candidate(w, h, strm, n, last)
    IN [ x |-> c.x, y |-> c.y, attempts |-> last + 1,
         validPosition |-> passes # {}, n |-> n + 2 * (last + 1) ]

\* the for loop with a slip: no fruit is pushed when the loop found no
\* valid position
RECURSIVE PlaceFruitsSkips(_, _, _, _, _, _, _, _)
PlaceFruitsSkips(fs, pl, i, w, h, type, strm, n) ==
    IF i < FRUIT_COUNT
    THEN LET pos == FindPosition(fs, w, h, strm, n)
             fruit == NewFruit(pos.x, pos.y, type, Rnd(strm, pos.n))
         IN PlaceFruitsSkips(IF pos.validPosition THEN Append(fs, fruit) ELSE fs,
                             Append(pl, pos), i + 1, w, h, type, strm, pos.n + 1)
    ELSE [ fruits |-> fs, placement |-> pl ]

\* the for loop over the fruits, from fruit i (0-based) on; pl collects
\* what each position loop ended with, which the program does not keep
RECURSIVE PlaceFruits(_, _, _, _, _, _, _, _)
PlaceFruits(fs, pl, i, w, h, type, strm, n) ==
    IF i < FRUIT_COUNT
    THEN LET pos == FindPosition(fs, w, h, strm, n)
             fruit == NewFruit(pos.x, pos.y, type, Rnd(strm, pos.n))
         IN PlaceFruits(Append(fs, fruit), Append(pl, pos), i + 1,
                        w, h, type, strm, pos.n + 1)
    ELSE [ fruits |-> fs, placement |-> pl ]

\* types[Math.floor(Math.random() * types.length)], from draw 0
PickType(strm) == Types[((Rnd(strm, 0) * Len(Types)) \div 8) + 1]

\* the fruit batch initGame builds for a viewport and a stream of draws
Layout(w, h, strm) == PlaceFruits(<<>>, <<>>, 0, w, h, PickType(strm), strm, 1)

----------------------------------------------------------------------------
(* Inputs of the exploration *)

\* streams of draws for initGame (draw 0 picks the type).  RingStream puts
\* the eight fruits on a ring around the crown centre, the second fruit on
\* its second pass; ZeroStream draws the crown centre every time.
RingStream == <<3,  0, 3, 0,  0, 3, 1, 3, 2,  2, 3, 4,  3, 3, 6,
                4, 3, 1,  5, 3, 3,  6, 3, 5,  7, 3, 7>>

ZeroStream == <<0>>

\* the viewports (window.innerWidth, window.innerHeight) and the stream
\* initGame reads in each: a large viewport with the ring, and a viewport
\* so small that the sampling radius is 0 and the batch is one stack
Scenes == { <<800, 600, RingStream>>, <<80, 100, ZeroStream>> }

\* streams of draws for one handleInput (impulse, spin, then the leaves)
TapStreams == { <<0, 7, 4>>, <<6, 4>> }

\* pointer-down coordinates: the crown centre of the small viewport, the
\* crown centre of the large one (inside the ring, on no fruit), the first
\* ring fruit, and a point between the first two ring fruits
TapPoints == { <<4000, 4000>>, <<40000, 24000>>, <<50710, 24000>>, <<49100, 27800>> }

LongTapPoints == { <<49100, 27800>> }

\* Date.now() / 1000 * 2, in 1/8 turns
ClockVals == { 0, 2 }

TimerIds == 1..MaxTimerId

\* inputs of the layout generator taken alone: every stream of period 3
\* over three draws (the centre, a middle radius, a radius near the rim; an
\* angle of 0, 3/8 or 6/8 of a turn), in a viewport too small for eight
\* separated fruits and in one whose sampling radius is clamped to 0
LayoutDraws == { 0, 3, 6 }

LayoutStreams ==
    { <<a, b, c>> : a \in LayoutDraws, b \in LayoutDraws, c \in LayoutDraws }
        \cup { RingStream, ZeroStream }

LayoutViewports == { <<400, 400>>, <<80, 100>> }

LayoutScenes ==
    { <<v[1], v[2], strm>> : v \in LayoutViewports, strm \in LayoutStreams }
        \cup Scenes

\* inputs of the falling-fruit runs: the ring in the large viewport (its
\* first fruit hangs at the height of the crown centre), and a stack in a
\* viewport exactly as wide as a fruit and in one narrower than a fruit
FallScenes == { <<800, 600, RingStream>>, <<80, 100, ZeroStream>>,
                <<60, 100, ZeroStream>> }

\* the first ring fruit, and a point on the stack of either small viewport
FallTapPoints == { <<50710, 24000>>, <<3500, 4000>> }

\* a knock to the left with spin, and a knock with no sideways impulse
FallTapStreams == { <<0, 7, 4>>, <<4, 1, 6>> }

\* the batches initGame can build from these inputs
Layouts ==
    [ sc \in Scenes \cup LayoutScenes \cup FallScenes |->
        Layout(sc[1], sc[2], sc[3]) ]

----------------------------------------------------------------------------
(* Operations *)

\* clearTimeout with a slip: the handle stays armed
ClearTimerKeeps(tm, id) == tm

\* clearTimeout(id) on the host's table tm, guarded by `if (resetTimer)'
ClearTimer(tm, id) == IF id # 0 THEN tm \ {id} ELSE tm

\* initGame() with a slip: the pending timer is forgotten, not cancelled
initGameKeepsTimer(w, h, strm, tm) ==
    /\ timers' = tm
    /\ resetTimer' = 0
    /\ fruits' = Layouts[<<w, h, strm>>].fruits
    /\ placement' = Layouts[<<w, h, strm>>].placement
    /\ particles' = <<>>
    /\ currentFruitType' = PickType(strm)
    /\ frame' = 0

\* initGame() with a slip: the particles survive the reset
initGameKeepsParticles(w, h, strm, tm) ==
    /\ timers' = ClearTimer(tm, resetTimer)
    /\ resetTimer' = 0
    /\ fruits' = Layouts[<<w, h, strm>>].fruits
    /\ placement' = Layouts[<<w, h, strm>>].placement
    /\ particles' = particles
    /\ currentFruitType' = PickType(strm)
    /\ frame' = 0

\* initGame() in a viewport w x h, with the host's timer table being tm
initGame(w, h, strm, tm) ==
    /\ timers' = ClearTimer(tm, resetTimer)
    /\ resetTimer' = 0
    /\ fruits' = Layouts[<<w, h, strm>>].fruits
    /\ placement' = Layouts[<<w, h, strm>>].placement
    /\ particles' = <<>>
    /\ currentFruitType' = PickType(strm)
    /\ frame' = 0

\* the scan with a slip: it runs in creation order, lowest index first
HitScanForward(fs, x, y, i) ==
    LET hits == { j \in 1..i : /\ ~fs[j].isFalling
                               /\ DistLess(x - fs[j].x, y - fs[j].y, fs[j].hitRadius) }
    IN IF hits = {} THEN 0 ELSE CHOOSE j \in hits : \A k \in hits : j <= k

\* the scan with a slip: falling fruits are not skipped
HitScanNoSkip(fs, x, y, i) ==
    LET hits == { j \in 1..i : DistLess(x - fs[j].x, y - fs[j].y, fs[j].hitRadius) }
    IN IF hits = {} THEN 0 ELSE CHOOSE j \in hits : \A k \in hits : j >= k

\* the reverse scan of handleInput from index i down: the index of the
\* fruit that is hit, 0 when the scan ends without a hit
RECURSIVE HitScan(_, _, _, _)
HitScan(fs, x, y, i) ==
    IF i < 1 THEN 0
    ELSE IF fs[i].isFalling THEN HitScan(fs, x, y, i - 1)
    ELSE IF DistLess(x - fs[i].x, y - fs[i].y, fs[i].hitRadius) THEN i
    ELSE HitScan(fs, x, y, i - 1)

\* the leaves with a slip: spawned at the fruit centre
SpawnLeavesAtCentre(f, hit, strm) ==
    [ j \in 1..LEAF_COUNT |->
        NewParticle(f.x, f.y, strm, 2 + 4 * (j - 1), <<hit, j>>) ]

\* the leaves with a slip: one leaf too many
SpawnLeavesSix(f, hit, strm) ==
    [ j \in 1..(LEAF_COUNT + 1) |->
        NewParticle(f.x, f.y - LEAF_RISE, strm, 2 + 4 * (j - 1), <<hit, j>>) ]

\* the leaves spawned for a hit on fruit f, number hit
SpawnLeaves(f, hit, strm) ==
    [ j \in 1..LEAF_COUNT |->
        NewParticle(f.x, f.y - LEAF_RISE, strm, 2 + 4 * (j - 1), <<hit, j>>) ]

\* the fruit f after the transition to falling
Knock(f, strm) ==
    [ f EXCEPT !.isFalling = TRUE,
               !.vx = (Rnd(strm, 0) - 4) * 25,
               !.angularVelocity = (Rnd(strm, 1) - 4) * 125 ]

AllFalling(fs) == \A i \in 1..Len(fs) : fs[i].isFalling

\* the arming with a slip: the handle is recorded but nothing is armed
ArmResetLost ==
    LET tm == ClearTimer(timers, resetTimer)
    IN \E id \in TimerIds \ tm :
          /\ resetTimer' = id
          /\ timers' = tm

\* setTimeout(.., RESET_DELAY) after the guarded clearTimeout: the host
\* hands out a handle that is not armed
ArmReset ==
    LET tm == ClearTimer(timers, resetTimer)
    IN \E id \in TimerIds \ tm :
          /\ resetTimer' = id
          /\ timers' = tm \cup {id}

\* the check with a slip: `some' in place of `every'
CheckAnyFallen(fs) ==
    IF \E i \in 1..Len(fs) : fs[i].isFalling
    THEN ArmReset
    ELSE UNCHANGED <<resetTimer, timers>>

\* the check with a slip: it does not count the last hanging fruit
CheckAllFallenEarly(fs) ==
    IF Cardinality({ i \in 1..Len(fs) : ~fs[i].isFalling }) <= 1
    THEN ArmReset
    ELSE UNCHANGED <<resetTimer, timers>>

\* `if (fruits.every(f => f.isFalling))', on the fruits after the hit
CheckAllFallen(fs) ==
    IF AllFalling(fs)
    THEN ArmReset
    ELSE UNCHANGED <<resetTimer, timers>>

handleInput(x, y, strm) ==
    LET hit == HitScan(fruits, x, y, Len(fruits))
    IN /\ ev' = [ op |-> "tap", x |-> x, y |-> y, armed |-> timers # {} ]
       /\ UNCHANGED <<width, height, currentFruitType, frame, placement>>
       /\ IF hit = 0
          THEN /\ cues' = <<>>
               /\ UNCHANGED <<fruits, particles, resetTimer, timers>>
          ELSE /\ fruits' = [ fruits EXCEPT ![hit] = Knock(fruits[hit], strm) ]
               /\ cues' = <<"tap">>
               /\ particles' = particles \o SpawnLeaves(fruits[hit], hit, strm)
               /\ CheckAllFallen(fruits')

\* particles.splice(i, 1)
Splice(ps, i) == [ j \in 1..(Len(ps) - 1) |-> IF j < i THEN ps[j] ELSE ps[j + 1] ]

\* one pass with a slip: the leaf goes as soon as it is nearly transparent
VisitParticleEarly(ps, i) ==
    IF ParticleUpdate(ps[i]).life <= 5000
    THEN Splice([ ps EXCEPT ![i] = ParticleUpdate(ps[i]) ], i)
    ELSE [ ps EXCEPT ![i] = ParticleUpdate(ps[i]) ]

\* one pass of the particle loop of loop(): p.update(), then the splice
\* when p.life <= 0
VisitParticle(ps, i) ==
    IF ParticleUpdate(ps[i]).life <= 0
    THEN Splice([ ps EXCEPT ![i] = ParticleUpdate(ps[i]) ], i)
    ELSE [ ps EXCEPT ![i] = ParticleUpdate(ps[i]) ]

\* the particle loop with a slip: after a splice the index drops by two,
\* as if the entries above had moved down past it
RECURSIVE PruneScanSkips(_, _)
PruneScanSkips(ps, i) ==
    IF i < 1 \/ i > Len(ps) THEN ps
    ELSE PruneScanSkips(VisitParticle(ps, i),
                        IF ParticleUpdate(ps[i]).life <= 0 THEN i - 2 ELSE i - 1)

\* the particle loop of loop(), from index i down to 1 (i never exceeds
\* the length; reading it makes each pass complete before the next starts)
RECURSIVE PruneScan(_, _)
PruneScan(ps, i) ==
    IF i < 1 \/ i > Len(ps) THEN ps ELSE PruneScan(VisitParticle(ps, i), i - 1)

\* the bounce cues of one frame, one per fruit that requests it
BounceCues(fs, h) ==
    LET bouncing == { i \in 1..Len(fs) :
                        fs[i].isFalling /\ BounceCue(FruitMove(fs[i]), h) }
    IN [ j \in 1..Cardinality(bouncing) |-> "bounce" ]

\* loop(): one frame
loop(q) ==
    /\ fruits' = [ i \in 1..Len(fruits) |-> FruitUpdate(fruits[i], width, height, q) ]
    /\ particles' = PruneScan(particles, Len(particles))
    /\ cues' = BounceCues(fruits, height)
    /\ frame' = frame + 1
    /\ ev' = [ op |-> "tick", x |-> 0, y |-> 0, armed |-> timers # {} ]
    /\ UNCHANGED <<width, height, currentFruitType, resetTimer, timers, placement>>

----------------------------------------------------------------------------
(* Events *)

\* mousedown, or one touch of touchstart, inside the canvas
Tap(pts) ==
    \E p \in pts, strm \in TapStreams :
        /\ p[1] <= width * 100
        /\ p[2] <= height * 100
        /\ handleInput(p[1], p[2], strm)

\* a pointer-down event early in the life of a batch that still has few
\* falling fruits
TapFalling ==
    /\ frame < TapWindow
    /\ Cardinality({ i \in 1..Len(fruits) : fruits[i].isFalling }) < MaxFalling
    /\ \E p \in FallTapPoints, strm \in FallTapStreams :
          /\ p[1] <= width * 100
          /\ p[2] <= height * 100
          /\ handleInput(p[1], p[2], strm)

\* requestAnimationFrame(loop)
Tick(maxFrames) ==
    /\ frame < maxFrames
    /\ \E q \in ClockVals : loop(q)

\* click on the reset button
ResetClick ==
    \E sc \in Scenes :
        /\ sc[1] = width /\ sc[2] = height
        /\ initGame(width, height, sc[3], timers)
        /\ cues' = <<>>
        /\ ev' = [ op |-> "reset", x |-> 0, y |-> 0, armed |-> timers # {} ]
        /\ UNCHANGED <<width, height>>

\* resize()
Resize ==
    \E sc \in Scenes :
        /\ width' = sc[1]
        /\ height' = sc[2]
        /\ initGame(sc[1], sc[2], sc[3], timers)
        /\ cues' = <<>>
        /\ ev' = [ op |-> "resize", x |-> 0, y |-> 0, armed |-> timers # {} ]

\* resize() into one of the viewports of scs
ResizeTo(scs) ==
    \E sc \in scs :
        /\ width' = sc[1]
        /\ height' = sc[2]
        /\ initGame(sc[1], sc[2], sc[3], timers)
        /\ cues' = <<>>
        /\ ev' = [ op |-> "resize", x |-> 0, y |-> 0, armed |-> timers # {} ]

\* the host runs the callback of an armed timer, which leaves the table
TimerFire ==
    \E id \in timers, sc \in Scenes :
        /\ sc[1] = width /\ sc[2] = height
        /\ initGame(width, height, sc[3], timers \ {id})
        /\ cues' = <<>>
        /\ ev' = [ op |-> "timer", x |-> 0, y |-> 0, armed |-> timers # {} ]
        /\ UNCHANGED <<width, height>>

----------------------------------------------------------------------------
(* Specifications *)

\* the state after `resize(); ' at the end of the script
Init ==
    \E sc \in Scenes :
        /\ width = sc[1]
        /\ height = sc[2]
        /\ fruits = Layouts[sc].fruits
        /\ placement = Layouts[sc].placement
        /\ particles = <<>>
        /\ resetTimer = 0
        /\ currentFruitType = PickType(sc[3])
        /\ timers = {}
        /\ cues = <<>>
        /\ ev = [ op |-> "init", x |-> 0, y |-> 0, armed |-> FALSE ]
        /\ frame = 0

Next ==
    \/ Tap(TapPoints)
    \/ Tick(MaxFrames)
    \/ ResetClick
    \/ Resize
    \/ TimerFire

Spec == Init /\ [][Next]_vars

\* the host runs the callback of a timer that stays armed
SpecFair == Spec /\ WF_vars(TimerFire)

\* one large viewport, the ring batch, and enough frames for leaves to die
InitLong ==
    /\ width = 800
    /\ height = 600
    /\ fruits = Layouts[<<800, 600, RingStream>>].fruits
    /\ placement = Layouts[<<800, 600, RingStream>>].placement
    /\ particles = <<>>
    /\ resetTimer = 0
    /\ currentFruitType = PickType(RingStream)
    /\ timers = {}
    /\ cues = <<>>
    /\ ev = [ op |-> "init", x |-> 0, y |-> 0, armed |-> FALSE ]
    /\ frame = 0

NextLong ==
    \/ Tap(LongTapPoints)
    \/ Tick(MaxLongFrames)
    \/ ResetClick

SpecLong == InitLong /\ [][NextLong]_vars

\* the layout generator taken alone: the script starts in any of the layout
\* scenes, and every resize runs the generator again
InitLayout ==
    \E sc \in LayoutScenes :
        /\ width = sc[1]
        /\ height = sc[2]
        /\ fruits = Layouts[sc].fruits
        /\ placement = Layouts[sc].placement
        /\ particles = <<>>
        /\ resetTimer = 0
        /\ currentFruitType = PickType(sc[3])
        /\ timers = {}
        /\ cues = <<>>
        /\ ev = [ op |-> "init", x |-> 0, y |-> 0, armed |-> FALSE ]
        /\ frame = 0

NextLayout == ResizeTo(LayoutScenes)

SpecLayout == InitLayout /\ [][NextLayout]_vars

\* falling fruits followed until they lie still: no reset, a few pointer
\* events in the first frames, then frames only
InitFall ==
    \E sc \in FallScenes :
        /\ width = sc[1]
        /\ height = sc[2]
        /\ fruits = Layouts[sc].fruits
        /\ placement = Layouts[sc].placement
        /\ particles = <<>>
        /\ resetTimer = 0
        /\ currentFruitType = PickType(sc[3])
        /\ timers = {}
        /\ cues = <<>>
        /\ ev = [ op |-> "init", x |-> 0, y |-> 0, armed |-> FALSE ]
        /\ frame = 0

NextFall ==
    \/ TapFalling
    \/ Tick(MaxFallFrames)

SpecFall == InitFall /\ [][NextFall]_vars

\* requestAnimationFrame keeps calling loop.  The steps of loop are the
\* steps that advance the frame counter, and loop can always run, so this
\* is weak fairness of Tick(MaxFallFrames).
Ticking(maxFrames) == frame < maxFrames /\ frame' = frame + 1

SpecFallFair == SpecFall /\ WF_frame(Ticking(MaxFallFrames))

TypeOK ==
    /\ Len(fruits) = FRUIT_COUNT
    /\ resetTimer \in 0..MaxTimerId
    /\ timers \subseteq TimerIds

----------------------------------------------------------------------------
(* Properties *)

\* C1: without a reset, a fruit that is falling stays falling: no frame tick
\* and no pointer-down event makes a falling fruit hang again.
C1_FallingNeverReverts ==
    [][ ev'.op \in {"tap", "tick"} =>
          \A i \in 1..Len(fruits) : fruits[i].isFalling => fruits'[i].isFalling ]_vars

\* a fruit has been falling for at least two frames
C1_Witness ==
    /\ ev.op = "tick"
    /\ frame >= 2
    /\ \E i \in 1..Len(fruits) : fruits[i].isFalling /\ fruits[i].vy >= 2 * GRAVITY

\* C2: every hanging fruit has zero velocity and the position it was created
\* with, and a frame tick changes nothing of a hanging fruit but its rotation.
C2_HangingAtRest ==
    /\ [](\A i \in 1..Len(fruits) :
            ~fruits[i].isFalling =>
                /\ fruits[i].vx = 0
                /\ fruits[i].vy = 0
                /\ \E sc \in Scenes :
                      /\ sc[1] = width /\ sc[2] = height
                      /\ fruits[i].x = Layouts[sc].fruits[i].x
                      /\ fruits[i].y = Layouts[sc].fruits[i].y)
    /\ [][ ev'.op = "tick" =>
             \A i \in 1..Len(fruits) :
                ~fruits[i].isFalling =>
                    fruits'[i] = [ fruits[i] EXCEPT !.rotation = fruits'[i].rotation ] ]_vars

\* a frame has swayed a hanging fruit next to a falling one
C2_Witness ==
    /\ ev.op = "tick"
    /\ \E i \in 1..Len(fruits) : ~fruits[i].isFalling /\ fruits[i].rotation # 0
    /\ \E j \in 1..Len(fruits) : fruits[j].isFalling

\* C3: a pointer-down event transitions exactly the fruit with the highest
\* creation index among the hanging fruits whose centre is closer than 52 px
\* to the pointer; every other fruit, qualifying or not, is left as it was.
C3_TopmostHit ==
    [][ ev'.op = "tap" =>
          LET q == { i \in 1..Len(fruits) :
                        /\ ~fruits[i].isFalling
                        /\ DistLess(ev'.x - fruits[i].x, ev'.y - fruits[i].y, 5200) }
          IN q # {} =>
                LET top == CHOOSE i \in q : \A j \in q : j <= i
                IN /\ fruits'[top].isFalling
                   /\ fruits'[top].x = fruits[top].x
                   /\ fruits'[top].y = fruits[top].y
                   /\ \A j \in (1..Len(fruits)) \ {top} : fruits'[j] = fruits[j] ]_vars

\* a tap has hit a fruit while another hanging fruit was under the pointer
C3_Witness ==
    /\ ev.op = "tap"
    /\ cues = <<"tap">>
    /\ \E j \in 1..Len(fruits) :
          /\ ~fruits[j].isFalling
          /\ DistLess(ev.x - fruits[j].x, ev.y - fruits[j].y, 5200)

\* C4: a pointer-down event with no hanging fruit within 52 px of the pointer
\* changes nothing: no fruit, no particle, no timer, and it requests no cue.
C4_MissIsNoOp ==
    [][ ( /\ ev'.op = "tap"
          /\ \A i \in 1..Len(fruits) :
                fruits[i].isFalling
                \/ ~DistLess(ev'.x - fruits[i].x, ev'.y - fruits[i].y, 5200) )
        => /\ UNCHANGED <<width, height, fruits, particles, resetTimer,
                          currentFruitType, timers, frame>>
           /\ cues' = <<>> ]_vars

\* a tap has missed with only a falling fruit under the pointer
C4_Witness ==
    /\ ev.op = "tap"
    /\ cues = <<>>
    /\ \E i \in 1..Len(fruits) :
          /\ fruits[i].isFalling
          /\ DistLess(ev.x - fruits[i].x, ev.y - fruits[i].y, 5200)

\* C5: a hit appends exactly 5 particles, each at (fruit.x, fruit.y - 10 px)
\* with life 1.0, and keeps every particle that was there.
C5_HitSpawnsFive ==
    [][ ev'.op = "tap" =>
          LET q == { i \in 1..Len(fruits) :
                        /\ ~fruits[i].isFalling
                        /\ DistLess(ev'.x - fruits[i].x, ev'.y - fruits[i].y, 5200) }
              n == Len(particles)
          IN q # {} =>
                LET top == CHOOSE i \in q : \A j \in q : j <= i
                IN /\ Len(particles') = n + 5
                   /\ SubSeq(particles', 1, n) = particles
                   /\ \A k \in (n + 1)..(n + 5) :
                         /\ particles'[k].x = fruits[top].x
                         /\ particles'[k].y = fruits[top].y - 1000
                         /\ particles'[k].life = 100000 ]_vars

\* a hit has added leaves to leaves that were already there
C5_Witness ==
    /\ ev.op = "tap"
    /\ cues = <<"tap">>
    /\ Len(particles) >= 10

\* C6: at most one deferred reset is armed, and it is the one resetTimer
\* names, so no timer the program has lost track of can fire.
C6_OneTimer ==
    /\ Cardinality(timers) <= 1
    /\ timers \subseteq {resetTimer}

\* a deferred reset is armed
C6_Witness ==
    /\ timers # {}
    /\ resetTimer \in timers

\* C7: the tap that makes the last hanging fruit fall arms the deferred reset
\* in that event; a tap that leaves a fruit hanging arms nothing.
C7_LastTapArms ==
    [][ ev'.op = "tap" =>
          /\ ( /\ \A i \in 1..Len(fruits') : fruits'[i].isFalling
               /\ \E i \in 1..Len(fruits) : ~fruits[i].isFalling )
             => /\ resetTimer' # 0
                /\ timers' = {resetTimer'}
          /\ (\E i \in 1..Len(fruits') : ~fruits'[i].isFalling)
             => UNCHANGED <<resetTimer, timers>> ]_vars

\* the last hanging fruit has just been tapped and the reset is armed
C7_Witness ==
    /\ ev.op = "tap"
    /\ cues = <<"tap">>
    /\ \A i \in 1..Len(fruits) : fruits[i].isFalling
    /\ resetTimer \in timers

\* C8: a manual reset or a resize cancels the pending deferred reset in the
\* same event, and a deferred reset fires only when every fruit of the
\* current batch is falling.
C8_ResetCancelsTimer ==
    [][ /\ ev'.op \in {"reset", "resize"} => timers' = {} /\ resetTimer' = 0
        /\ ev'.op = "timer" => \A i \in 1..Len(fruits) : fruits[i].isFalling ]_vars

\* a manual reset or a resize has happened while a deferred reset was armed
C8_Witness ==
    /\ ev.op \in {"reset", "resize"}
    /\ ev.armed

\* C9: right after every reset there are exactly 8 fruits, all hanging with
\* zero velocity and zero angular velocity, no particle and no armed timer.
C9_FreshBatch ==
    ev.op \in {"init", "reset", "resize", "timer"} =>
        /\ Len(fruits) = 8
        /\ \A i \in 1..Len(fruits) :
              /\ ~fruits[i].isFalling
              /\ fruits[i].vx = 0
              /\ fruits[i].vy = 0
              /\ fruits[i].angularVelocity = 0
        /\ particles = <<>>
        /\ resetTimer = 0
        /\ timers = {}

\* the deferred reset has fired and built a batch
C9_Witness ==
    /\ ev.op = "timer"
    /\ Len(fruits) = 8
    /\ particles = <<>>

\* C10, as claimed: the life of a particle strictly decreases on every frame
\* tick, and a particle leaves the collection exactly on the tick that takes
\* its life to 0 or below, by no earlier tick and by no other event.
C10_Original ==
    [][ \A k \in 1..Len(particles) :
          LET p == particles[k]
              stays == { m \in 1..Len(particles') : particles'[m].pid = p.pid }
          IN /\ ev'.op = "tick" => \A m \in stays : particles'[m].life < p.life
             /\ stays = {} <=> (ev'.op = "tick" /\ p.life - p.decay <= 0) ]_vars

\* C10, amended: the life of a particle strictly decreases on every frame
\* tick, and a particle leaves the collection exactly on the tick that takes
\* its life to 0 or below, or when a reset empties the collection.
C10_PrunedAtZeroOrReset ==
    [][ \A k \in 1..Len(particles) :
          LET p == particles[k]
              stays == { m \in 1..Len(particles') : particles'[m].pid = p.pid }
          IN /\ ev'.op = "tick" => \A m \in stays : particles'[m].life < p.life
             /\ stays = {} <=> \/ ev'.op = "tick" /\ p.life - p.decay <= 0
                               \/ ev'.op \in {"reset", "resize", "timer"} ]_vars

\* a frame has pruned some leaves of the batch and kept others
C10_Witness ==
    /\ ev.op = "tick"
    /\ Len(particles) > 0
    /\ Len(particles) < 5 * Cardinality({ i \in 1..Len(fruits) : fruits[i].isFalling })

\* C11: in the batch of one run of the layout generator, two fruits are at
\* least 75 px apart, or the later of the two was placed after its position
\* loop used all 200 passes without finding a candidate that overlaps none.
C11_SeparatedOrCapped ==
    \A j \in 1..Len(placement) : \A i \in 1..(j - 1) :
        \/ ~DistLess(placement[j].x - placement[i].x,
                     placement[j].y - placement[i].y, 7500)
        \/ /\ placement[j].attempts = 200
           /\ ~placement[j].validPosition

\* a batch in which one fruit was placed on a retry, clear of all earlier
\* fruits, and another was placed over an earlier one after 200 passes
C11_Witness ==
    /\ ev.op = "resize"
    /\ \E j \in 1..Len(placement) :
          /\ placement[j].validPosition
          /\ placement[j].attempts > 1
    /\ \E j \in 1..Len(placement) : \E i \in 1..(j - 1) :
          /\ DistLess(placement[j].x - placement[i].x,
                      placement[j].y - placement[i].y, 7500)
          /\ placement[j].attempts = 200

\* C12: one run of the layout generator makes at most 200 passes of the
\* position loop per fruit, at most 1600 in all (each pass reads two draws,
\* each fruit one more, after the draw of the type), and pushes exactly 8
\* fruits, each at the last candidate its loop drew, valid or not.
C12_EightFruitsWithinCap ==
    /\ Len(fruits) = 8
    /\ Len(placement) = 8
    /\ \A j \in 1..Len(placement) :
          /\ placement[j].attempts >= 1
          /\ placement[j].attempts <= 200
          /\ j <= Len(fruits) =>
                /\ fruits[j].x = placement[j].x
                /\ fruits[j].y = placement[j].y
    /\ placement[Len(placement)].n <= 1 + 2 * 1600 + 8

\* a batch of 8 in which the loops of at least two fruits ran to the cap
C12_Witness ==
    /\ ev.op = "resize"
    /\ Len(fruits) = 8
    /\ \E i \in 1..Len(placement) : \E j \in 1..Len(placement) :
          /\ i # j
          /\ ~placement[i].validPosition
          /\ ~placement[j].validPosition
          /\ placement[Len(placement)].n > 2 * 400

\* C13: every fruit of a fresh batch, placed through the cap or not, lies
\* within max(0, 0.35 * min(width, height) - 35) px of the crown centre
\* (width / 2, 0.4 * height); when 0.35 * min(width, height) <= 35 all 8
\* fruits are exactly at the crown centre.
C13_InsideCrown ==
    LET m == IF width < height THEN width ELSE height
        bound == IF 35 * m - 3500 > 0 THEN 35 * m - 3500 ELSE 0
        cx == (100 * width) \div 2
        cy == 40 * height
    IN \A j \in 1..Len(fruits) :
          /\ (fruits[j].x - cx) * (fruits[j].x - cx)
               + (fruits[j].y - cy) * (fruits[j].y - cy) <= bound * bound
          /\ 35 * m <= 3500 => fruits[j].x = cx /\ fruits[j].y = cy

\* a batch in a viewport whose sampling radius is clamped to 0, its last
\* fruit placed through the cap
C13_Witness ==
    /\ ev.op = "resize"
    /\ 35 * width <= 3500
    /\ Len(fruits) = 8
    /\ \A j \in 1..Len(fruits) :
          fruits[j].x = (100 * width) \div 2 /\ fruits[j].y = 40 * height
    /\ ~placement[8].validPosition
    /\ placement[8].attempts = 200

\* C14: a frame tick leaves x, y, vx and vy of a falling fruit unchanged when
\* the fruit is at rest on the ground (vx = 0, vy = 0, y = 0.8 * height -
\* radius) with neither edge beyond a wall.
C14_RestIsFixed ==
    [][ ev'.op = "tick" =>
          \A i \in 1..Len(fruits) :
             ( /\ fruits[i].isFalling
               /\ fruits[i].vx = 0
               /\ fruits[i].vy = 0
               /\ fruits[i].y = 80 * height - fruits[i].radius
               /\ fruits[i].x - fruits[i].radius >= 0
               /\ fruits[i].x + fruits[i].radius <= 100 * width )
             => /\ fruits'[i].x = fruits[i].x
                /\ fruits'[i].y = fruits[i].y
                /\ fruits'[i].vx = 0
                /\ fruits'[i].vy = 0 ]_vars

\* the first frame after a fruit was knocked with no sideways impulse
\* while it hung exactly at rest height: the frame has acted on a fruit at
\* rest (any other falling fruit still moves sideways in this frame)
C14_Witness ==
    /\ ev.op = "tick"
    /\ frame = 1
    /\ \E i \in 1..Len(fruits) :
          /\ fruits[i].isFalling
          /\ fruits[i].vx = 0
          /\ fruits[i].vy = 0
          /\ fruits[i].y = 80 * height - fruits[i].radius
          /\ fruits[i].x - fruits[i].radius >= 0
          /\ fruits[i].x + fruits[i].radius <= 100 * width

\* C15: while frames keep coming and no reset happens, every fruit that is
\* falling comes to lie on the ground for good: from some frame on it has
\* y = 0.8 * height - radius and vy = 0 after every frame (y = 440 px in a
\* viewport 600 px high).
C15_FallingSettles ==
    \A i \in 1..FRUIT_COUNT :
        [](fruits[i].isFalling =>
             <>[]( /\ fruits[i].y = 80 * height - fruits[i].radius
                   /\ fruits[i].vy = 0
                   /\ height = 600 => fruits[i].y = 44000 ))

\* the first ring fruit, knocked down in the large viewport, lies on the
\* ground after its bounces
C15_Witness ==
    /\ ev.op = "tick"
    /\ height = 600
    /\ frame > 90
    /\ fruits[1].isFalling
    /\ fruits[1].y = 44000
    /\ fruits[1].vy = 0

\* C16: whenever all fruits of the batch are falling, a reset follows (the
\* deferred one, or a manual reset or a resize before it) and the scene is
\* again a batch of 8 hanging fruits.
C16_AllFallenResets ==
    (\A i \in 1..Len(fruits) : fruits[i].isFalling)
        ~> ( /\ ev.op \in {"timer", "reset", "resize"}
             /\ Len(fruits) = 8
             /\ \A i \in 1..Len(fruits) : ~fruits[i].isFalling )

\* the deferred reset has fired on its own and the fruits hang again
C16_Witness ==
    /\ ev.op = "timer"
    /\ ev.armed
    /\ timers = {}
    /\ \A i \in 1..Len(fruits) : ~fruits[i].isFalling

\* C17: a frame tick of a falling fruit applies gravity before it moves the
\* fruit (vy1 = vy + 0.5, x1 = x + vx, y1 = y + vy1); if then y1 + radius >
\* 0.8 * height, the fruit is put at y = 0.8 * height - radius, vy becomes
\* -0.6 * vy1, or 0 when that is below 1 in magnitude, and vx becomes
\* 0.9 * vx, or 0 when that is below 0.1 in magnitude (vx and x are stated
\* for a tick that crosses no wall).  After the tick y + radius <= 0.8 *
\* height.
C17_GravityThenGround ==
    [][ ev'.op = "tick" =>
          \A i \in 1..Len(fruits) :
             fruits[i].isFalling =>
                LET f == fruits[i]
                    g == fruits'[i]
                    ground == 80 * height
                    vy1 == f.vy + 50
                    x1 == f.x + f.vx
                    y1 == f.y + vy1
                    lands == y1 + f.radius > ground
                    rebound == Trunc(-6 * vy1, 10)
                    slowed == Trunc(9 * f.vx, 10)
                IN /\ g.y = IF lands THEN ground - f.radius ELSE y1
                   /\ g.vy = IF ~lands THEN vy1
                             ELSE IF Abs(rebound) < 100 THEN 0 ELSE rebound
                   /\ (x1 - f.radius >= 0 /\ x1 + f.radius <= 100 * width)
                        => /\ g.x = x1
                           /\ g.vx = IF ~lands THEN f.vx
                                     ELSE IF Abs(slowed) < 10 THEN 0 ELSE slowed
                   /\ g.y + g.radius <= ground ]_vars

\* a fruit has just hit the ground and rebounds
C17_Witness ==
    /\ ev.op = "tick"
    /\ \E i \in 1..Len(fruits) :
          /\ fruits[i].isFalling
          /\ fruits[i].y = 80 * height - fruits[i].radius
          /\ fruits[i].vy < 0
          /\ fruits[i].vx # 0

\* C18, as claimed: after every frame tick of a falling fruit, in every
\* viewport, radius <= x <= width - radius; and when the moved fruit had an
\* edge beyond a wall, x is at that wall's bound and vx is -0.6 times what
\* the ground block left.
C18_Original ==
    [][ ev'.op = "tick" =>
          \A i \in 1..Len(fruits) :
             fruits[i].isFalling =>
                LET f == fruits[i]
                    g == fruits'[i]
                    x1 == f.x + f.vx
                    lands == f.y + f.vy + 50 + f.radius > 80 * height
                    slowed == Trunc(9 * f.vx, 10)
                    vx1 == IF ~lands THEN f.vx
                           ELSE IF Abs(slowed) < 10 THEN 0 ELSE slowed
                IN /\ f.radius <= g.x
                   /\ g.x <= 100 * width - f.radius
                   /\ x1 - f.radius < 0
                        => g.x = f.radius /\ g.vx = Trunc(-6 * vx1, 10)
                   /\ x1 + f.radius > 100 * width
                        => /\ g.x = 100 * width - f.radius
                           /\ g.vx = Trunc(-6 * vx1, 10) ]_vars

\* C18, amended: after every frame tick of a falling fruit x <= width -
\* radius.  In a viewport at least as wide as a fruit (width >= 2 * radius)
\* also radius <= x, and when the moved fruit had an edge beyond a wall, x is
\* at that wall's bound and vx is -0.6 times what the ground block left.
\* In a narrower viewport x ends at width - radius, left of radius.
C18_InsideWalls ==
    [][ ev'.op = "tick" =>
          \A i \in 1..Len(fruits) :
             fruits[i].isFalling =>
                LET f == fruits[i]
                    g == fruits'[i]
                    x1 == f.x + f.vx
                    lands == f.y + f.vy + 50 + f.radius > 80 * height
                    slowed == Trunc(9 * f.vx, 10)
                    vx1 == IF ~lands THEN f.vx
                           ELSE IF Abs(slowed) < 10 THEN 0 ELSE slowed
                IN /\ g.x <= 100 * width - f.radius
                   /\ 100 * width >= 2 * f.radius
                        => /\ f.radius <= g.x
                           /\ x1 - f.radius < 0
                                => g.x = f.radius /\ g.vx = Trunc(-6 * vx1, 10)
                           /\ x1 + f.radius > 100 * width
                                => /\ g.x = 100 * width - f.radius
                                   /\ g.vx = Trunc(-6 * vx1, 10)
                   /\ 100 * width < 2 * f.radius
                        => /\ g.x = 100 * width - f.radius
                           /\ g.x < f.radius ]_vars

\* in a viewport as wide as a fruit, a falling fruit has just been turned
\* back at the left wall
C18_Witness ==
    /\ ev.op = "tick"
    /\ 100 * width >= 2 * 4000
    /\ \E i \in 1..Len(fruits) :
          /\ fruits[i].isFalling
          /\ fruits[i].x = fruits[i].radius
          /\ fruits[i].vx > 0

\* C19: one frame tick updates every particle exactly once, removes exactly
\* those whose life is <= 0 after the update, and keeps the others in their
\* order: the collection after the tick is the sequence of the updated
\* particles with life > 0.
C19_PruneScanExact ==
    [][ ev'.op = "tick" =>
          LET updated(p) == [ p EXCEPT !.x = p.x + p.vx,
                                       !.y = p.y + p.vy,
                                       !.vy = p.vy + 20,
                                       !.life = p.life - p.decay,
                                       !.rotation = p.rotation + 1000 ]
              all == [ k \in 1..Len(particles) |-> updated(particles[k]) ]
              alive(p) == p.life > 0
          IN particles' = SelectSeq(all, alive) ]_vars

\* the frame that took the first leaf of a fruit (22 frames after the tap)
\* from below its second leaf, which lives on
C19_Witness ==
    /\ ev.op = "tick"
    /\ \E k \in 1..Len(particles) :
          /\ particles[k].pid[2] = 2
          /\ particles[k].decay = 3500
          /\ particles[k].life = 100000 - 22 * 3500
          /\ \A m \in 1..Len(particles) :
                particles[m].pid # <<particles[k].pid[1], 1>>

\* C20: a frame tick requests the bounce cue only for a fruit that hits the
\* ground in that tick with a vertical speed above 2 before the reflection;
\* a tick on which every falling fruit lies settled requests none.
C20_BounceCueOnImpact ==
    [][ ev'.op = "tick" =>
          LET hard == { i \in 1..Len(fruits) :
                          /\ fruits[i].isFalling
                          /\ fruits[i].y + fruits[i].vy + 50 + fruits[i].radius
                               > 80 * height
                          /\ Abs(fruits[i].vy + 50) > 200 }
              settled == { i \in 1..Len(fruits) :
                             /\ fruits[i].isFalling
                             /\ fruits[i].vy = 0
                             /\ fruits[i].y = 80 * height - fruits[i].radius }
          IN /\ Len(cues') <= Cardinality(hard)
             /\ (\A i \in 1..Len(fruits) : fruits[i].isFalling => i \in settled)
                   => cues' = <<>> ]_vars

\* a fruit has just hit the ground hard: the cue is requested and the fruit
\* rebounds
C20_Witness ==
    /\ ev.op = "tick"
    /\ cues = <<"bounce">>
    /\ \E i \in 1..Len(fruits) :
          /\ fruits[i].isFalling
          /\ fruits[i].y = 80 * height - fruits[i].radius
          /\ fruits[i].vy < -120

\* C21: between events a deferred reset is pending exactly when every fruit
\* of the batch is falling: no timer is armed while a fruit hangs, and when
\* all fruits have fallen the timer that resetTimer names is armed.
C21_PendingIffAllFallen ==
    /\ timers # {} <=> \A i \in 1..Len(fruits) : fruits[i].isFalling
    /\ resetTimer # 0 <=> timers # {}
    /\ Len(fruits) = 8

\* frames run while all fruits lie fallen and the deferred reset is pending
C21_Witness ==
    /\ ev.op = "tick"
    /\ timers # {}
    /\ \A i \in 1..Len(fruits) : fruits[i].isFalling

\* C22: the number of particles is at most 5 times the number of falling
\* fruits of the batch, hence at most 40.
C22_ParticleBound ==
    /\ Len(particles)
         <= 5 * Cardinality({ i \in 1..Len(fruits) : fruits[i].isFalling })
    /\ Len(particles) <= 40

\* all 8 fruits have been tapped within one frame: 40 leaves are in flight
C22_Witness ==
    /\ Len(particles) = 40
    /\ Cardinality({ i \in 1..Len(fruits) : fruits[i].isFalling }) = 8

\* C23: with frames continuing and no further taps the particle collection
\* becomes empty; every particle decays by at least 0.02 of its life of 1.0
\* per frame, so a particle in the collection has lived fewer than 50 frames,
\* and 50 frames after the last frame that takes taps no particle is left.
C23_ParticlesDieOut ==
    /\ (particles # <<>>) ~> (particles = <<>>)
    /\ [](\A k \in 1..Len(particles) :
             /\ particles[k].decay >= 2000
             /\ 100000 - particles[k].life < 50 * particles[k].decay)
    /\ [](frame >= TapWindow + 49 => particles = <<>>)

\* 50 frames after a tap the slowest leaf (decay 0.02) has just gone, the
\* collection is empty and the fruit lies fallen
C23_Witness ==
    /\ ev.op = "tick"
    /\ frame = 50
    /\ particles = <<>>
    /\ \E i \in 1..Len(fruits) : fruits[i].isFalling

====
